---- MODULE Spec2Model ----
(***************************************************************************)
(* Model of src/server.js: the CWA weather proxy.  One weather request is  *)
(* followed from its arrival at getWeather to its response.                *)
(*                                                                         *)
(* TLA+ strings are ASCII, so the Chinese literals of the source are       *)
(* written romanised; each definition's comment gives the original.        *)
(* JavaScript values are tagged records (field t; a string's text in s, a  *)
(* number in n, an array's elements in a, an object's properties beside    *)
(* t), so that undefined, null, "", 0, "0" and objects stay distinct and   *)
(* truthiness is computed the way JavaScript computes it.                  *)
(***************************************************************************)
EXTENDS Integers, Sequences, FiniteSets, TLC

VARIABLES
    CWA_API_KEY,    \* process.env.CWA_API_KEY (server.js:11)
    req,            \* the request: req.query.locationName, req.params.locationName
    cwa,            \* what the upstream provider does with the one call it may get
    pc,             \* position of the handler
    locationName,   \* the handler's local `locationName` (server.js:91-96)
    upstreamCalls,  \* the axios.get calls issued, in order
    thrown,         \* the error a rejected handler promise carries
    responses       \* the responses sent on res, in order

vars == <<CWA_API_KEY, req, cwa, pc, locationName, upstreamCalls, thrown, responses>>

----------------------------------------------------------------------------
(* Bounds of the model *)

\* longest Time series of a weather element in an upstream payload
MaxLen == 2

----------------------------------------------------------------------------
(* JavaScript values *)

Undef == [t |-> "undefined"]
Null == [t |-> "null"]
Str(s) == [t |-> "string", s |-> s]
Num(n) == [t |-> "number", n |-> n]
Arr(a) == [t |-> "array", a |-> a]

IsNullish(x) == x.t \in {"undefined", "null"}

\* ToBoolean: undefined, null, "" and 0 are falsy
Truthy(x) ==
    /\ ~IsNullish(x)
    /\ ~(x.t = "string" /\ x.s = "")
    /\ ~(x.t = "number" /\ x.n = 0)

\* a || b
JsOr(a, b) == IF Truthy(a) THEN a ELSE b

\* o.f on a non-nullish o: a missing property reads undefined
Get(o, f) == IF o.t = "object" /\ f \in DOMAIN o THEN o[f] ELSE Undef

\* o?.f
OptGet(o, f) == IF IsNullish(o) THEN Undef ELSE Get(o, f)

\* a?.[i], i counted from 0 as in the source
OptIndex(a, i) ==
    IF a.t = "array" /\ i < Len(a.a) THEN a.a[i + 1] ELSE Undef

\* a.length of the arrays the model feeds the loop
Length(a) == IF a.t = "array" THEN Len(a.a) ELSE 0

\* ToString of a string or a number
ToStr(x) == IF x.t = "number" THEN ToString(x.n) ELSE x.s

\* x + suffix, x a string or a number
Plus(x, suffix) == Str(ToStr(x) \o suffix)

----------------------------------------------------------------------------
(* Static tables (server.js:19-72) *)

\* VALID_LOCATIONS, in the source's order:
\* 宜蘭縣 花蓮縣 臺東縣 澎湖縣 金門縣 連江縣 臺北市 新北市 桃園市 臺中市 臺南市
\* 高雄市 基隆市 新竹縣 新竹市 苗栗縣 彰化縣 南投縣 雲林縣 嘉義縣 嘉義市 屏東縣
VALID_LOCATIONS ==
    << "Yilan County", "Hualien County", "Taitung County", "Penghu County",
       "Kinmen County", "Lienchiang County", "Taipei City", "New Taipei City",
       "Taoyuan City", "Taichung City", "Tainan City", "Kaohsiung City",
       "Keelung City", "Hsinchu County", "Hsinchu City", "Miaoli County",
       "Changhua County", "Nantou County", "Yunlin County", "Chiayi County",
       "Chiayi City", "Pingtung County" >>

\* DEFAULT_LOCATION = 臺中市
DEFAULT_LOCATION == "Taichung City"

\* The table with the line of 連江縣 lost: an allow-listed name without an id.
LOCATION_API_MAP_LineLost ==
    ("Yilan County" :> "F-D0047-003") @@ ("Taoyuan City" :> "F-D0047-007") @@
    ("Hsinchu County" :> "F-D0047-011") @@ ("Miaoli County" :> "F-D0047-015") @@
    ("Changhua County" :> "F-D0047-019") @@ ("Nantou County" :> "F-D0047-023") @@
    ("Yunlin County" :> "F-D0047-027") @@ ("Chiayi County" :> "F-D0047-031") @@
    ("Pingtung County" :> "F-D0047-035") @@ ("Taitung County" :> "F-D0047-039") @@
    ("Hualien County" :> "F-D0047-043") @@ ("Penghu County" :> "F-D0047-047") @@
    ("Keelung City" :> "F-D0047-051") @@ ("Hsinchu City" :> "F-D0047-055") @@
    ("Chiayi City" :> "F-D0047-059") @@ ("Taipei City" :> "F-D0047-063") @@
    ("Kaohsiung City" :> "F-D0047-067") @@ ("New Taipei City" :> "F-D0047-071") @@
    ("Taichung City" :> "F-D0047-075") @@ ("Tainan City" :> "F-D0047-079") @@
    ("Kinmen County" :> "F-D0047-087")

\* LOCATION_API_MAP, in the source's order: 宜蘭縣 桃園市 新竹縣 苗栗縣 彰化縣
\* 南投縣 雲林縣 嘉義縣 屏東縣 臺東縣 花蓮縣 澎湖縣 基隆市 新竹市 嘉義市 臺北市
\* 高雄市 新北市 臺中市 臺南市 連江縣 金門縣
LOCATION_API_MAP ==
    ("Yilan County" :> "F-D0047-003") @@ ("Taoyuan City" :> "F-D0047-007") @@
    ("Hsinchu County" :> "F-D0047-011") @@ ("Miaoli County" :> "F-D0047-015") @@
    ("Changhua County" :> "F-D0047-019") @@ ("Nantou County" :> "F-D0047-023") @@
    ("Yunlin County" :> "F-D0047-027") @@ ("Chiayi County" :> "F-D0047-031") @@
    ("Pingtung County" :> "F-D0047-035") @@ ("Taitung County" :> "F-D0047-039") @@
    ("Hualien County" :> "F-D0047-043") @@ ("Penghu County" :> "F-D0047-047") @@
    ("Keelung City" :> "F-D0047-051") @@ ("Hsinchu City" :> "F-D0047-055") @@
    ("Chiayi City" :> "F-D0047-059") @@ ("Taipei City" :> "F-D0047-063") @@
    ("Kaohsiung City" :> "F-D0047-067") @@ ("New Taipei City" :> "F-D0047-071") @@
    ("Taichung City" :> "F-D0047-075") @@ ("Tainan City" :> "F-D0047-079") @@
    ("Lienchiang County" :> "F-D0047-083") @@ ("Kinmen County" :> "F-D0047-087")

\* VALID_LOCATIONS.includes(x): SameValueZero against each entry
Includes(list, x) ==
    x.t = "string" /\ \E k \in 1..Len(list) : list[k] = x.s

\* map[key] on a plain object: a missing key reads undefined
Lookup(map, key) ==
    IF key.t = "string" /\ key.s \in DOMAIN map THEN Str(map[key.s]) ELSE Undef

\* Resolution that only tests for a missing name and forgets the allow-list.
ResolveLocation_NoAllowList(r) ==
    LET asked == JsOr(r.query.locationName, r.params.locationName)
    IN  IF ~Truthy(asked) THEN Str(DEFAULT_LOCATION) ELSE asked

\* server.js:91-96: req.query.locationName || req.params.locationName, replaced
\* by the default when falsy or not in VALID_LOCATIONS
ResolveLocation(r) ==
    LET asked == JsOr(r.query.locationName, r.params.locationName)
    IN  IF ~Truthy(asked) \/ ~Includes(VALID_LOCATIONS, asked)
        THEN Str(DEFAULT_LOCATION)
        ELSE asked

----------------------------------------------------------------------------
(* The transformation of a successful upstream payload (server.js:112-217) *)

\* ElementName of the master timeline: 天氣現象
WX == "TianQiXianXiang"
\* 溫度
EL_TEMPERATURE == "WenDu"
\* 體感溫度
EL_APPARENT == "TiGanWenDu"
\* 舒適度指數
EL_COMFORT == "ShuShiDuZhiShu"
\* 3小時降雨機率
EL_RAIN == "3XiaoShiJiangYuJiLv"
\* 風向
EL_WIND_DIRECTION == "FengXiang"
\* 風速
EL_WIND_SPEED == "FengSu"
\* 相對濕度
EL_HUMIDITY == "XiangDuiShiDu"
\* 天氣預報綜合描述
EL_DESCRIPTION == "TianQiYuBaoZongHeMiaoShu"

\* the suffix "°C", in ASCII
DEG_C == "degC"

\* weatherElements[name] on the map built at server.js:133-136
MapGet(m, name) == IF name \in DOMAIN m THEN m[name] ELSE Undef

\* server.js:133-136: forEach over the first k elements, a later element of the
\* same ElementName overwriting an earlier one
RECURSIVE BuildWeatherElements(_, _)
BuildWeatherElements(elements, k) ==
    IF k = 0
    THEN [x \in {} |-> Undef]
    ELSE LET m == BuildWeatherElements(elements, k - 1)
             key == ToStr(Get(elements[k], "ElementName"))
         IN  [x \in DOMAIN m \cup {key} |->
                 IF x = key THEN Get(elements[k], "Time") ELSE m[x]]

\* A timeline taken from the temperature series instead of 天氣現象.
WxTimes_FromTemperature(weatherElements) ==
    JsOr(MapGet(weatherElements, EL_TEMPERATURE), Arr(<<>>))

\* server.js:139: weatherElements["天氣現象"] || []
WxTimes(weatherElements) == JsOr(MapGet(weatherElements, WX), Arr(<<>>))

\* A numeric attribute read without the guard on the entry at i: the first
\* entry of the series stands in for a missing one.
SuffixedAttr_Unguarded(weatherElements, name, i, field, suffix) ==
    LET series == MapGet(weatherElements, name)
        entry == IF Truthy(OptIndex(series, i)) THEN OptIndex(series, i)
                 ELSE OptIndex(series, 0)
        raw == OptGet(OptIndex(OptGet(entry, "ElementValue"), 0), field)
    IN  IF Truthy(raw) THEN Plus(raw, suffix) ELSE Str("")

\* server.js:166-169, 172-175, 184-187, 195-198, 201-204:
\*   if (weatherElements[name]?.[i]) {
\*     const v = weatherElements[name][i].ElementValue?.[0]?.[field];
\*     forecast.attr = v ? v + suffix : "";
\*   }
\* over the default "" of server.js:146-155
SuffixedAttr(weatherElements, name, i, field, suffix) ==
    LET entry == OptIndex(MapGet(weatherElements, name), i)
        raw == OptGet(OptIndex(Get(entry, "ElementValue"), 0), field)
    IN  IF Truthy(entry)
        THEN IF Truthy(raw) THEN Plus(raw, suffix) ELSE Str("")
        ELSE Str("")

\* server.js:178-181, 190-192, 207-209:
\*   if (weatherElements[name]?.[i]) {
\*     forecast.attr = weatherElements[name][i].ElementValue?.[0]?.[field] || "";
\*   }
PlainAttr(weatherElements, name, i, field) ==
    LET entry == OptIndex(MapGet(weatherElements, name), i)
        raw == OptGet(OptIndex(Get(entry, "ElementValue"), 0), field)
    IN  IF Truthy(entry) THEN JsOr(raw, Str("")) ELSE Str("")

\* server.js:142-209: the forecast of period i (from 0) of the timeline
ForecastAt(weatherElements, wxTimes, i) ==
    LET timeData == wxTimes.a[i + 1]
        wxValue == OptIndex(Get(timeData, "ElementValue"), 0)
    IN  [ startTime |-> Get(timeData, "StartTime"),
          endTime |-> Get(timeData, "EndTime"),
          weather |-> IF Truthy(wxValue)
                      THEN JsOr(Get(wxValue, "Weather"), Str("")) ELSE Str(""),
          weatherCode |-> IF Truthy(wxValue)
                          THEN JsOr(Get(wxValue, "WeatherCode"), Str("")) ELSE Str(""),
          rain |-> SuffixedAttr(weatherElements, EL_RAIN, i,
                                "ProbabilityOfPrecipitation", "%"),
          temperature |-> SuffixedAttr(weatherElements, EL_TEMPERATURE, i,
                                       "Temperature", DEG_C),
          apparentTemp |-> SuffixedAttr(weatherElements, EL_APPARENT, i,
                                        "ApparentTemperature", DEG_C),
          comfort |-> PlainAttr(weatherElements, EL_COMFORT, i, "ComfortIndex"),
          windDirection |-> PlainAttr(weatherElements, EL_WIND_DIRECTION, i,
                                      "WindDirection"),
          windSpeed |-> SuffixedAttr(weatherElements, EL_WIND_SPEED, i,
                                     "WindSpeed", " m/s"),
          humidity |-> SuffixedAttr(weatherElements, EL_HUMIDITY, i,
                                    "RelativeHumidity", "%"),
          description |-> PlainAttr(weatherElements, EL_DESCRIPTION, i,
                                    "WeatherDescription") ]

\* the TypeError of reading a property of undefined or null
TypeErrorMessage(x, property) ==
    "Cannot read properties of " \o x.t \o " (reading '" \o property \o "')"

Throw(message) == [kind |-> "throw", message |-> message]

\* server.js:112-217 on response.data: the weatherData to send, the not-found
\* condition of server.js:117-122, or the TypeError an unguarded property read
\* throws (caught at server.js:218)
Transform(data, city) ==
    LET records == Get(data, "records")
        locationsData == OptIndex(Get(records, "Locations"), 0)
        locationData == OptIndex(OptGet(locationsData, "Location"), 0)
        elements == Get(locationData, "WeatherElement")
        weatherElements == BuildWeatherElements(elements.a, Len(elements.a))
        wxTimes == WxTimes(weatherElements)
    IN  IF IsNullish(data) THEN Throw(TypeErrorMessage(data, "records"))
        ELSE IF IsNullish(records) THEN Throw(TypeErrorMessage(records, "Locations"))
        ELSE IF ~Truthy(locationData) THEN [kind |-> "notfound"]
        ELSE IF IsNullish(elements) THEN Throw(TypeErrorMessage(elements, "forEach"))
        ELSE IF elements.t # "array"
             THEN Throw("locationData.WeatherElement.forEach is not a function")
        ELSE IF \E k \in 1..Len(elements.a) : IsNullish(elements.a[k])
             THEN Throw(TypeErrorMessage(
                      elements.a[CHOOSE k \in 1..Len(elements.a) :
                                     /\ IsNullish(elements.a[k])
                                     /\ \A j \in 1..(k - 1) : ~IsNullish(elements.a[j])],
                      "ElementName"))
        ELSE IF \E i \in 0..(Length(wxTimes) - 1) : IsNullish(wxTimes.a[i + 1])
             THEN Throw(TypeErrorMessage(
                      wxTimes.a[CHOOSE k \in 1..Length(wxTimes) :
                                    /\ IsNullish(wxTimes.a[k])
                                    /\ \A j \in 1..(k - 1) : ~IsNullish(wxTimes.a[j])],
                      "StartTime"))
        ELSE [ kind |-> "ok",
               weatherData |->
                 [ city |-> city,
                   district |-> Get(locationData, "LocationName"),
                   updateTime |-> JsOr(OptGet(locationsData, "DatasetDescription"),
                                       Str("")),
                   forecasts |-> [i \in 1..Length(wxTimes) |->
                                     ForecastAt(weatherElements, wxTimes, i - 1)] ] ]

----------------------------------------------------------------------------
(* Responses of the handler *)

\* CWA_API_BASE_URL (server.js:10)
CWA_API_BASE_URL == "https://opendata.cwa.gov.tw/api"

\* "伺服器設定錯誤"
ERR_CONFIG == "SiFuQi SheDing CuoWu"
\* "請在 .env 檔案中設定 CWA_API_KEY"
MSG_CONFIG == "Qing zai .env DangAn zhong SheDing CWA_API_KEY"
\* "查無資料"
ERR_NO_DATA == "ChaWu ZiLiao"
\* "CWA API 錯誤"
ERR_CWA_API == "CWA API CuoWu"
\* "無法取得天氣資料"
MSG_UNAVAILABLE == "WuFa QuDe TianQi ZiLiao"
\* "伺服器錯誤"
ERR_SERVER == "SiFuQi CuoWu"
\* "無法取得天氣資料，請稍後再試"
MSG_RETRY == "WuFa QuDe TianQi ZiLiao, Qing ShaoHou ZaiShi"

\* ${x} in a template literal
Template(x) == IF IsNullish(x) THEN x.t ELSE ToStr(x)

\* A test for an unset variable only: an empty CWA_API_KEY passes.
ApiKeyMissing_UnsetOnly(key) == key.t = "undefined"

\* server.js:83: !CWA_API_KEY
ApiKeyMissing(key) == ~Truthy(key)

\* server.js:84-87
ConfigErrorResponse ==
    [ status |-> 500,
      body |-> [error |-> ERR_CONFIG, message |-> Str(MSG_CONFIG)] ]

\* server.js:99-110: the axios.get call for the resolved location
UpstreamCall(city, key) ==
    [ datasetId |-> Lookup(LOCATION_API_MAP, city),
      url |-> CWA_API_BASE_URL \o "/v1/rest/datastore/"
                  \o Template(Lookup(LOCATION_API_MAP, city)),
      Authorization |-> key ]

\* server.js:118-121: `無法取得${locationName}天氣資料`
NotFoundResponse(city) ==
    [ status |-> 404,
      body |-> [ error |-> ERR_NO_DATA,
                 message |-> Str("WuFa QuDe " \o Template(city) \o " TianQi ZiLiao") ] ]

\* server.js:214-217
SuccessResponse(weatherData) ==
    [ status |-> 200, body |-> [success |-> TRUE, data |-> weatherData] ]

\* server.js:226-230, once error.response.data.message has been read
HttpErrorResponse(response) ==
    [ status |-> response.status,
      body |-> [ error |-> ERR_CWA_API,
                 message |-> JsOr(Get(response.data, "message"), Str(MSG_UNAVAILABLE)),
                 details |-> response.data ] ]

\* A transport failure answered in the shape of an upstream HTTP error.
OtherErrorResponse_AsUpstream(message) ==
    [ status |-> 502,
      body |-> [ error |-> ERR_CWA_API,
                 message |-> Str(message),
                 details |-> Undef ] ]

\* server.js:234-238: any error that carries no upstream response
OtherErrorResponse(message) ==
    [ status |-> 500,
      body |-> [error |-> ERR_SERVER, message |-> Str(MSG_RETRY), debug |-> message] ]

\* server.js:281-284: the error-handling middleware
MiddlewareResponse(message) ==
    [ status |-> 500, body |-> [error |-> ERR_SERVER, message |-> Str(message)] ]

----------------------------------------------------------------------------
(* Inputs: the configuration, the request, the upstream provider *)

\* CWA_API_KEY unset, set to nothing, or set
ApiKeys == {Undef, Str(""), Str("CWA-KEY")}

\* ?locationName=: absent, empty, each allow-listed name, and names that are not
QueryValues ==
    {Undef, Str(""), Str("Atlantis"), Str("taichung city")}
        \cup {Str(VALID_LOCATIONS[k]) : k \in 1..Len(VALID_LOCATIONS)}

\* /api/weather has no path parameter; /api/weather/:locationName a non-empty one
ParamValues == {Undef, Str("Taipei City"), Str("Atlantis")}

Request(q, p) == [query |-> [locationName |-> q], params |-> [locationName |-> p]]

Requests == {Request(q, p) : q \in QueryValues, p \in ParamValues}

SeqsUpTo(S, n) == UNION {[1..k -> S] : k \in 0..n}

\* the eight elements read beside the master timeline, with the field each holds
OTHER_ELEMENTS ==
    << EL_TEMPERATURE, EL_APPARENT, EL_COMFORT, EL_RAIN, EL_WIND_DIRECTION,
       EL_WIND_SPEED, EL_HUMIDITY, EL_DESCRIPTION >>

ELEMENT_FIELD ==
    (EL_TEMPERATURE :> "Temperature") @@ (EL_APPARENT :> "ApparentTemperature") @@
    (EL_COMFORT :> "ComfortIndex") @@ (EL_RAIN :> "ProbabilityOfPrecipitation") @@
    (EL_WIND_DIRECTION :> "WindDirection") @@ (EL_WIND_SPEED :> "WindSpeed") @@
    (EL_HUMIDITY :> "RelativeHumidity") @@ (EL_DESCRIPTION :> "WeatherDescription")

\* raw values of a field: missing, empty, zero as text and as number, non-zero
RawValues == {Undef, Str(""), Str("0"), Num(0), Str("25")}

\* {ElementValue: [{field: raw}]}
ValueEntry(field, raw) ==
    [ t |-> "object",
      ElementValue |-> Arr(<< ("t" :> "object") @@ (field :> raw) >>) ]

\* a Time entry of a non-master element: null, without ElementValue, with an
\* empty one, or with one value object
Entries(field) ==
    { Null,
      [t |-> "object", ElementValue |-> Undef],
      [t |-> "object", ElementValue |-> Arr(<<>>)] }
        \cup {ValueEntry(field, raw) : raw \in RawValues}

Element(name, time) == [t |-> "object", ElementName |-> Str(name), Time |-> time]

\* period k of the master timeline, with its value object or with none
WxEntry(k, full) ==
    [ t |-> "object",
      StartTime |-> Str("start-" \o ToString(k)),
      EndTime |-> Str("end-" \o ToString(k)),
      ElementValue |->
        IF full
        THEN Arr(<< [t |-> "object", Weather |-> Str("Sunny"), WeatherCode |-> Str("01")] >>)
        ELSE Arr(<<>>) ]

\* the master element: absent, without Time, or with 0..MaxLen periods, the
\* even ones without a value object
MasterElements ==
    { <<>>, << Element(WX, Undef) >> }
        \cup { << Element(WX, Arr([k \in 1..n |-> WxEntry(k, k % 2 = 1)])) >> :
                 n \in 0..MaxLen }

\* the Time values of a non-master element: missing, or up to MaxLen entries
Series(field) == {Undef} \cup {Arr(x) : x \in SeqsUpTo(Entries(field), MaxLen)}

\* one of the eight other elements with any such Time, or none
ProbedElements ==
    { <<>> }
        \cup UNION { { << Element(OTHER_ELEMENTS[e], time) >> :
                         time \in Series(ELEMENT_FIELD[OTHER_ELEMENTS[e]]) } :
                     e \in 1..Len(OTHER_ELEMENTS) }

\* the other elements, each with MaxLen entries whose value names element and index
FullElement(e) ==
    Element(OTHER_ELEMENTS[e],
            Arr([k \in 1..MaxLen |->
                    ValueEntry(ELEMENT_FIELD[OTHER_ELEMENTS[e]],
                               Str(ToString(e) \o ToString(k)))]))

Bystanders(probed) ==
    LET all == [e \in 1..Len(OTHER_ELEMENTS) |-> FullElement(e)]
    IN  SelectSeq(all, LAMBDA el : \A k \in 1..Len(probed) :
                                       probed[k].ElementName # el.ElementName)

\* a 200 body with one region, one sub-location and the given weather elements
Payload(weatherElement) ==
    [ t |-> "object",
      records |->
        [ t |-> "object",
          Locations |-> Arr(<<
            [ t |-> "object",
              DatasetDescription |-> Str("1-week forecast"),
              Location |-> Arr(<<
                [ t |-> "object",
                  LocationName |-> Str("District"),
                  WeatherElement |-> weatherElement ] >>) ] >>) ] ]

Ok(data) == [kind |-> "response", status |-> 200, data |-> data]

\* a payload whose region and sub-location are there: one probed element, the
\* master element, and the remaining elements in full or not at all
ForecastOutcome(probed, master, others) ==
    Ok(Payload(Arr(probed \o master \o (IF others THEN Bystanders(probed) ELSE <<>>))))

Regions(locations) == [t |-> "object", records |-> [t |-> "object", Locations |-> locations]]

\* 200 bodies without the region / sub-location / element structure
MalformedOutcomes ==
    { Ok([t |-> "object"]), Ok(Str("<html>maintenance</html>")),
      Ok([t |-> "object", records |-> Null]),
      Ok(Regions(Undef)), Ok(Regions(Arr(<<>>))), Ok(Regions(Arr(<<Null>>))),
      Ok(Regions(Arr(<<[t |-> "object", Location |-> Undef]>>))),
      Ok(Regions(Arr(<<[t |-> "object", Location |-> Arr(<<>>)]>>))),
      Ok(Regions(Arr(<<[t |-> "object", Location |-> Arr(<<Null>>)]>>))),
      Ok(Payload(Undef)), Ok(Payload(Arr(<<Null>>))),
      Ok(Payload(Arr(<<Element(WX, Arr(<<WxEntry(1, TRUE), Null>>))>>))) }

\* bodies of an upstream HTTP error
ErrorBodies ==
    { [t |-> "object", message |-> Str("rate limited")],
      [t |-> "object", message |-> Str("")],
      [t |-> "object", success |-> Str("false")],
      Str("Service Unavailable"), Str(""), Null }

HttpErrorOutcomes ==
    { [kind |-> "response", status |-> st, data |-> b] :
        st \in {401, 404, 503}, b \in ErrorBodies }

\* no upstream response at all
TransportOutcomes ==
    { [kind |-> "transport", message |-> m] :
        m \in {"connect ECONNREFUSED", "getaddrinfo ENOTFOUND opendata.cwa.gov.tw"} }

HealthyOutcome ==
    Ok(Payload(Arr(<< Element(WX, Arr([k \in 1..MaxLen |-> WxEntry(k, TRUE)])) >>
                   \o Bystanders(<<>>))))

----------------------------------------------------------------------------
(* The state machine *)

\* Every request and configuration against the outcomes that decide the
\* handler's path, and one request against every payload.
Init ==
    /\ pc = "received"
    /\ locationName = Undef
    /\ upstreamCalls = <<>>
    /\ thrown = ""
    /\ responses = <<>>
    /\ \/ /\ CWA_API_KEY \in ApiKeys
          /\ req \in Requests
          /\ cwa \in {HealthyOutcome} \cup MalformedOutcomes \cup HttpErrorOutcomes
                        \cup TransportOutcomes
       \/ /\ CWA_API_KEY = Str("CWA-KEY")
          /\ req = Request(Str("Taipei City"), Undef)
          /\ \E probed \in ProbedElements, master \in MasterElements, others \in BOOLEAN :
                cwa = ForecastOutcome(probed, master, others)

\* server.js:83-88: no credential, 500 before anything else
MissingApiKey ==
    /\ pc = "received"
    /\ ApiKeyMissing(CWA_API_KEY)
    /\ responses' = Append(responses, ConfigErrorResponse)
    /\ pc' = "done"
    /\ UNCHANGED <<CWA_API_KEY, req, cwa, locationName, upstreamCalls, thrown>>

\* server.js:90-110: resolve the location, issue the one axios.get and await it
CallUpstream ==
    /\ pc = "received"
    /\ ~ApiKeyMissing(CWA_API_KEY)
    /\ locationName' = ResolveLocation(req)
    /\ upstreamCalls' = Append(upstreamCalls, UpstreamCall(locationName', CWA_API_KEY))
    /\ pc' = "awaiting"
    /\ UNCHANGED <<CWA_API_KEY, req, cwa, thrown, responses>>

\* server.js:112-217, and 218-238 for a TypeError thrown on the way: axios
\* resolved with a 2xx response
UpstreamSuccess ==
    /\ pc = "awaiting"
    /\ cwa.kind = "response"
    /\ cwa.status \in 200..299
    /\ LET r == Transform(cwa.data, locationName)
       IN  responses' = Append(responses,
               CASE r.kind = "ok" -> SuccessResponse(r.weatherData)
                 [] r.kind = "notfound" -> NotFoundResponse(locationName)
                 [] r.kind = "throw" -> OtherErrorResponse(r.message))
    /\ pc' = "done"
    /\ UNCHANGED <<CWA_API_KEY, req, cwa, locationName, upstreamCalls, thrown>>

\* server.js:218-231: axios rejected with error.response set.  Reading
\* error.response.data.message of a null body throws inside the catch block, and
\* the handler's promise rejects.
UpstreamHttpError ==
    /\ pc = "awaiting"
    /\ cwa.kind = "response"
    /\ cwa.status \notin 200..299
    /\ IF IsNullish(cwa.data)
       THEN /\ thrown' = TypeErrorMessage(cwa.data, "message")
            /\ pc' = "rejected"
            /\ UNCHANGED responses
       ELSE /\ responses' = Append(responses, HttpErrorResponse(cwa))
            /\ pc' = "done"
            /\ UNCHANGED thrown
    /\ UNCHANGED <<CWA_API_KEY, req, cwa, locationName, upstreamCalls>>

\* server.js:218-221, 233-238: axios rejected without a response
UpstreamTransportFailure ==
    /\ pc = "awaiting"
    /\ cwa.kind = "transport"
    /\ responses' = Append(responses, OtherErrorResponse(cwa.message))
    /\ pc' = "done"
    /\ UNCHANGED <<CWA_API_KEY, req, cwa, locationName, upstreamCalls, thrown>>

\* server.js:279-285: a router that forwards a rejected handler promise to
\* next(err) (Express 5) reaches the error-handling middleware
ErrorMiddleware ==
    /\ pc = "rejected"
    /\ responses' = Append(responses, MiddlewareResponse(thrown))
    /\ pc' = "done"
    /\ UNCHANGED <<CWA_API_KEY, req, cwa, locationName, upstreamCalls, thrown>>

\* server.js:273-276: a router that ignores the promise an async handler returns
\* (Express 4) leaves the rejection unhandled and the request unanswered
UnhandledRejection ==
    /\ pc = "rejected"
    /\ pc' = "abandoned"
    /\ UNCHANGED <<CWA_API_KEY, req, cwa, locationName, upstreamCalls, thrown, responses>>

Next ==
    \/ MissingApiKey
    \/ CallUpstream
    \/ UpstreamSuccess
    \/ UpstreamHttpError
    \/ UpstreamTransportFailure
    \/ ErrorMiddleware
    \/ UnhandledRejection

Spec == Init /\ [][Next]_vars

----------------------------------------------------------------------------
(* What the properties below read off the request, the payload and the answer *)

\* the handler has returned, or its promise was rejected and dropped
Finished == pc \in {"done", "abandoned"}

\* the handler ran with a credential, so the upstream call was made
KeyPresent == CWA_API_KEY.t = "string" /\ CWA_API_KEY.s # ""

Answered == pc = "done" /\ Len(responses) = 1

Succeeded == Answered /\ responses[1].status = 200

Forecasts == responses[1].body.data.forecasts

\* the name the request asks for: the query parameter unless it is missing or
\* empty, then the path parameter
Asked ==
    LET q == req.query.locationName
    IN  IF q.t = "string" /\ q.s # "" THEN q ELSE req.params.locationName

AllowListed(x) ==
    x.t = "string" /\ x.s \in {VALID_LOCATIONS[k] : k \in 1..Len(VALID_LOCATIONS)}

\* the city a request must be served for (臺中市 unless an allow-listed name is asked)
ExpectedCity == IF AllowListed(Asked) THEN Asked.s ELSE "Taichung City"

\* first sub-location of the first region of a payload, undefined when missing
FirstLocation(data) ==
    OptIndex(OptGet(OptIndex(OptGet(OptGet(data, "records"), "Locations"), 0),
                    "Location"), 0)

UpstreamOk == cwa.kind = "response" /\ cwa.status \in 200..299

UpstreamHttpFailed == cwa.kind = "response" /\ cwa.status \notin 200..299

\* the payload's list of weather elements
UpstreamElements == OptGet(FirstLocation(cwa.data), "WeatherElement")

\* the Time series the payload holds under an element name, undefined when the
\* payload has no such element
UpstreamSeries(name) ==
    LET els == UpstreamElements
        hits == {k \in 1..Length(els) : OptGet(els.a[k], "ElementName") = Str(name)}
    IN  IF hits = {} THEN Undef
        ELSE OptGet(els.a[CHOOSE k \in hits : TRUE], "Time")

\* the raw value the payload holds for an element at period i (from 1)
RawAt(name, i) ==
    OptGet(OptIndex(OptGet(OptIndex(UpstreamSeries(name), i - 1), "ElementValue"), 0),
           ELEMENT_FIELD[name])

\* a payload with its region, sub-location, element list and master entries in
\* place: nothing but the eight other series may be short or missing
Transformable ==
    /\ UpstreamOk
    /\ Truthy(FirstLocation(cwa.data))
    /\ UpstreamElements.t = "array"
    /\ \A k \in 1..Length(UpstreamElements) : ~IsNullish(UpstreamElements.a[k])
    /\ \A k \in 1..Length(UpstreamSeries(WX)) : ~IsNullish(UpstreamSeries(WX).a[k])

\* the forecast attribute each of the eight elements fills, and its unit suffix
ATTRIBUTE ==
    (EL_TEMPERATURE :> "temperature") @@ (EL_APPARENT :> "apparentTemp") @@
    (EL_COMFORT :> "comfort") @@ (EL_RAIN :> "rain") @@
    (EL_WIND_DIRECTION :> "windDirection") @@ (EL_WIND_SPEED :> "windSpeed") @@
    (EL_HUMIDITY :> "humidity") @@ (EL_DESCRIPTION :> "description")

SUFFIX ==
    (EL_TEMPERATURE :> "degC") @@ (EL_APPARENT :> "degC") @@
    (EL_COMFORT :> "") @@ (EL_RAIN :> "%") @@
    (EL_WIND_DIRECTION :> "") @@ (EL_WIND_SPEED :> " m/s") @@
    (EL_HUMIDITY :> "%") @@ (EL_DESCRIPTION :> "")

NUMERIC_ELEMENTS == {EL_TEMPERATURE, EL_APPARENT, EL_WIND_SPEED, EL_RAIN, EL_HUMIDITY}

OtherElements == {OTHER_ELEMENTS[e] : e \in 1..Len(OTHER_ELEMENTS)}

----------------------------------------------------------------------------
(* C1 *)

\* C1: the location of the upstream call and the reported city are the asked
\* name when it is allow-listed and 臺中市 in every other case, and a request
\* for a name outside the list is served like any other (no error of its own).
C1_LocationResolution ==
    /\ upstreamCalls # <<>> =>
          /\ locationName = Str(ExpectedCity)
          /\ upstreamCalls[1].datasetId = Str(LOCATION_API_MAP[ExpectedCity])
    /\ Succeeded => responses[1].body.data.city = Str(ExpectedCity)
    /\ (pc = "done" /\ KeyPresent /\ cwa = HealthyOutcome) => Succeeded

\* a request for a name outside the allow-list, with an allow-listed path
\* parameter behind it, answered with the default city's forecast
C1_Witness ==
    /\ Succeeded
    /\ req.query.locationName = Str("Atlantis")
    /\ req.params.locationName = Str("Taipei City")
    /\ responses[1].body.data.city = Str("Taichung City")
    /\ upstreamCalls[1].datasetId = Str("F-D0047-075")

----------------------------------------------------------------------------
(* C2 *)

\* C2: a success answer has one forecast per entry of the payload's 天氣現象
\* series, forecast i carrying that entry's start and end time, and none when
\* the series is empty or missing, whatever the other series hold.
C2_AlignmentLaw ==
    Succeeded =>
        LET wx == UpstreamSeries(WX)
        IN  /\ Len(Forecasts) = (IF wx.t = "array" THEN Len(wx.a) ELSE 0)
            /\ \A i \in 1..Len(Forecasts) :
                  /\ Forecasts[i].startTime = wx.a[i].StartTime
                  /\ Forecasts[i].endTime = wx.a[i].EndTime

\* a success whose master series is shorter than another series of the payload
C2_Witness ==
    /\ Succeeded
    /\ Len(Forecasts) >= 1
    /\ Forecasts[Len(Forecasts)].startTime = Str("start-" \o ToString(Len(Forecasts)))
    /\ \E name \in OtherElements : Length(UpstreamSeries(name)) > Len(Forecasts)

----------------------------------------------------------------------------
(* C3 *)

\* C3: when only the eight other series are short or missing the request
\* succeeds; an attribute whose series is missing or has no entry at period i
\* is "" there, and a period whose entry holds a non-empty text shows that text
\* (with the unit suffix), so nothing is shifted.
C3_MissingAttributeLaw ==
    (pc = "done" /\ KeyPresent /\ Transformable) =>
        /\ Succeeded
        /\ \A i \in 1..Len(Forecasts) : \A name \in OtherElements :
              LET entry == OptIndex(UpstreamSeries(name), i - 1)
                  raw == RawAt(name, i)
              IN  /\ IsNullish(entry) => Forecasts[i][ATTRIBUTE[name]] = Str("")
                  /\ (raw.t = "string" /\ raw.s # "") =>
                        Forecasts[i][ATTRIBUTE[name]] = Str(raw.s \o SUFFIX[name])

\* two periods, a series with an entry for the first only: the first period
\* shows its value and the second is empty
C3_Witness ==
    /\ Succeeded
    /\ Len(Forecasts) = 2
    /\ Length(UpstreamSeries(EL_TEMPERATURE)) = 1
    /\ Forecasts[1].temperature = Str("25degC")
    /\ Forecasts[2].temperature = Str("")
    /\ Forecasts[2].humidity = Str("72%")

----------------------------------------------------------------------------
(* C4 *)

\* C4: each of the five numeric attributes is the raw value followed by its
\* suffix whenever the raw value is present and not the empty string (a zero
\* included), and "" otherwise.
C4_UnitSuffixLaw ==
    Succeeded =>
        \A i \in 1..Len(Forecasts) : \A name \in NUMERIC_ELEMENTS :
            LET raw == RawAt(name, i)
            IN  IF ~IsNullish(raw) /\ raw # Str("")
                THEN Forecasts[i][ATTRIBUTE[name]] = Str(ToStr(raw) \o SUFFIX[name])
                ELSE Forecasts[i][ATTRIBUTE[name]] = Str("")

----------------------------------------------------------------------------
(* C5 *)

\* C5: an upstream HTTP error of status s and body b is answered with status s
\* and {error, message, details}, details being b and message b's message when
\* it has one, for every status and every body.
C5_HttpErrorPassThrough ==
    (Finished /\ KeyPresent /\ UpstreamHttpFailed) =>
        /\ Len(responses) = 1
        /\ responses[1].status = cwa.status
        /\ DOMAIN responses[1].body = {"error", "message", "details"}
        /\ responses[1].body.details = cwa.data
        /\ Truthy(OptGet(cwa.data, "message")) =>
              responses[1].body.message = cwa.data.message

----------------------------------------------------------------------------
(* C6 *)

\* C6 as stated: a transport failure is answered in the pass-through shape of a
\* non-2xx upstream response.
C6_TransportPassThrough ==
    (pc = "done" /\ KeyPresent /\ cwa.kind = "transport") =>
        /\ Len(responses) = 1
        /\ responses[1].body.error = ERR_CWA_API
        /\ "details" \in DOMAIN responses[1].body

\* C6, amended: a transport failure (no upstream response) is answered HTTP 500
\* with the fixed body {error: "伺服器錯誤", message: "無法取得天氣資料，請稍後再試",
\* debug: the failure's message}; there is no upstream status or body to pass.
C6_TransportFailure500 ==
    (pc = "done" /\ KeyPresent /\ cwa.kind = "transport") =>
        responses = << [ status |-> 500,
                         body |-> [ error |-> "SiFuQi CuoWu",
                                    message |-> Str("WuFa QuDe TianQi ZiLiao, Qing ShaoHou ZaiShi"),
                                    debug |-> cwa.message ] ] >>

\* a transport failure that has been answered
C6_Witness ==
    /\ pc = "done"
    /\ cwa.kind = "transport"
    /\ Len(upstreamCalls) = 1
    /\ Len(responses) = 1
    /\ responses[1].body.debug = "connect ECONNREFUSED"

----------------------------------------------------------------------------
(* C7 *)

\* C7: a 2xx payload without a first sub-location of a first region is answered
\* 404 with {error, message}, never with a success body or another status.
C7_NotFound ==
    (pc = "done" /\ KeyPresent /\ UpstreamOk /\ ~Truthy(FirstLocation(cwa.data))) =>
        /\ Len(responses) = 1
        /\ responses[1].status = 404
        /\ DOMAIN responses[1].body = {"error", "message"}

----------------------------------------------------------------------------
(* C8 *)

\* C8: without a credential (unset or empty) no upstream call is ever issued
\* and the request is answered 500 with {error, message}, whatever it asks.
C8_MissingCredential ==
    ~KeyPresent =>
        /\ upstreamCalls = <<>>
        /\ pc \in {"received", "done"}
        /\ pc = "done" =>
              /\ Len(responses) = 1
              /\ responses[1].status = 500
              /\ DOMAIN responses[1].body = {"error", "message"}

\* an empty credential, an allow-listed name asked, the 500 sent
C8_Witness ==
    /\ CWA_API_KEY = Str("")
    /\ req.query.locationName = Str("Taipei City")
    /\ pc = "done"
    /\ responses[1].status = 500
    /\ upstreamCalls = <<>>

----------------------------------------------------------------------------
(* C9 *)

\* the 22 names are distinct, each has an id, and no two share one
TableIsTotalInjective ==
    /\ Len(VALID_LOCATIONS) = 22
    /\ \A j, k \in 1..Len(VALID_LOCATIONS) :
          j # k => VALID_LOCATIONS[j] # VALID_LOCATIONS[k]
    /\ \A k \in 1..Len(VALID_LOCATIONS) : VALID_LOCATIONS[k] \in DOMAIN LOCATION_API_MAP
    /\ \A a, b \in DOMAIN LOCATION_API_MAP :
          a # b => LOCATION_API_MAP[a] # LOCATION_API_MAP[b]
    /\ DEFAULT_LOCATION \in DOMAIN LOCATION_API_MAP

\* C9: the dataset-id table is total and injective over the 22 allow-listed
\* names, so every upstream call carries the defined id of its own location.
C9_TableTotalInjective ==
    /\ TableIsTotalInjective
    /\ \A c \in 1..Len(upstreamCalls) :
          /\ upstreamCalls[c].datasetId.t = "string"
          /\ \A k \in 1..Len(VALID_LOCATIONS) :
                upstreamCalls[c].datasetId = Str(LOCATION_API_MAP[VALID_LOCATIONS[k]])
                    <=> locationName = Str(VALID_LOCATIONS[k])

\* the call issued for the last entry but one of the table
C9_Witness ==
    /\ Len(upstreamCalls) = 1
    /\ locationName = Str("Lienchiang County")
    /\ upstreamCalls[1].datasetId = Str("F-D0047-083")
    /\ upstreamCalls[1].url = "https://opendata.cwa.gov.tw/api/v1/rest/datastore/F-D0047-083"

----------------------------------------------------------------------------
(* C10 *)

\* C10: at most one upstream call per request, nothing sent before the handler
\* ends, and a request whose handling has ended has exactly one response: the
\* complete success body or a JSON error body with error and message.
C10_SingleShotTerminal ==
    /\ Len(upstreamCalls) <= 1
    /\ ~Finished => responses = <<>>
    /\ Finished =>
          /\ Len(responses) = 1
          /\ \/ /\ responses[1].status = 200
                /\ DOMAIN responses[1].body = {"success", "data"}
                /\ DOMAIN responses[1].body.data =
                       {"city", "district", "updateTime", "forecasts"}
             \/ /\ responses[1].status # 200
                /\ {"error", "message"} \subseteq DOMAIN responses[1].body

====
